---- MODULE Spec2Model ----
(***************************************************************************)
(* Model of the authentication / authorization middleware, the token      *)
(* utilities (generateToken, verifyToken, extractToken) and the in-memory  *)
(* sliding-window rate limiter of server/src/utils/auth.js, together with  *)
(* the route chains of server/src/routes/users.js that mount them.         *)
(*                                                                         *)
(* Time is one abstract clock `now` (Date.now()); a tick is one unit of    *)
(* it.  The limiter's table is the Map `requests` of the closure that      *)
(* createRateLimiter returns.                                              *)
(***************************************************************************)
EXTENDS Integers, Sequences, FiniteSets, TLC

\* ------------------------------------------------------------------ bounds
MaxTime   == 3   \* the clock runs over 0..MaxTime
MaxWindow == 2   \* createRateLimiter is called with windowMs in 1..MaxWindow
MaxLimit  == 2   \* ... and with max in 1..MaxLimit
MaxCalls  == 6   \* number of direct limiter invocations of one run
MaxOps    == 2   \* number of logins, updates and deletions of one run
MaxLen    == 3   \* length of what follows the scheme in a header
MaxCodecCalls == 3   \* number of direct generateToken / verifyToken calls
MaxInflight == 3 \* number of requests that reach the limiter in one run
MaxInstCalls == 3 \* number of requests the created limiters handle in one run
MaxToggles == 3  \* number of toggleLike calls of one run
MaxGets == 3     \* number of GET /api/posts/:id requests of one run

\* The clients (req.ip) and the identities registered before the run
\* (1 as admin, 2 as user).
Keys == {1, 2}
UserIds == {1, 2}

\* The limiters one run creates with createRateLimiter.
InstanceIds == {1, 2}

\* The ids toggleLike is called with.
LikerIds == {1, 2, 3}

VARIABLES
  now,        \* Date.now()
  windowMs,   \* first argument of createRateLimiter
  max,        \* second argument of createRateLimiter
  requests,   \* the Map of the limiter: key -> sequence of timestamps
  admitted,   \* history: key -> times at which next() was called for the key
  denied,     \* history: key -> number of requests of the key answered 429
  lres,       \* what the last limiter invocation did to its (req, res, next)
  ncalls,     \* number of limiter invocations so far
  users,      \* the identity store (User collection): _id -> record
  issued,     \* the tokens generateToken has returned so far
  rq,         \* the request travelling through a route's middleware chain
  nops,       \* number of logins, updates and deletions so far
  extracted,  \* the last direct call of extractToken: its argument and outcome
  minted,     \* direct calls of generateToken so far: the user and the token
  verdicts,   \* direct calls of verifyToken so far: token, time and outcome
  flight,     \* requests inside the limiter: position in the handler, ip, time
  tables,     \* the Maps allocated by createRateLimiter calls
  instances,  \* the limiters createRateLimiter returned: config, Map, history
  ilast,      \* what the last invocation of one of these limiters did
  posts,      \* the Post collection: _id -> document
  gets,       \* handlers of the post routes that hold a loaded document
  tlog        \* history of the toggleLike calls on post 1

limiterVars == <<now, windowMs, max, requests, admitted, denied, lres, ncalls>>
routeVars == <<users, issued, rq, nops>>
codecVars == <<extracted, minted, verdicts>>
concVars == <<flight>>
instVars == <<tables, instances, ilast>>
postVars == <<posts, gets, tlog>>
utilVars == <<codecVars, concVars, instVars, postVars>>
vars == <<now, windowMs, max, requests, admitted, denied, lres, ncalls,
          users, issued, rq, nops, extracted, minted, verdicts, flight,
          tables, instances, ilast, posts, gets, tlog>>

\* ------------------------------------------------------------ the limiter
TooManyRequests == "Too many requests. Please try again later."

\* Array.prototype.filter(time => time > windowStart)
RECURSIVE FilterNewer(_, _)
FilterNewer(s, windowStart) ==
  IF s = <<>> THEN <<>>
  ELSE IF Head(s) > windowStart
       THEN <<Head(s)>> \o FilterNewer(Tail(s), windowStart)
       ELSE FilterNewer(Tail(s), windowStart)

\* "Clean old entries": the table after lines 102-107 for `key` at time t.
MutCleanInclusive(table, key, t, w) ==
  IF key \in DOMAIN table
  THEN [table EXCEPT ![key] = FilterNewer(@, t - w - 1)]
  ELSE table @@ (key :> <<>>)

MutCleanSweepsAll(table, key, t, w) ==
  LET base == IF key \in DOMAIN table THEN table ELSE table @@ (key :> <<>>)
  IN [k \in DOMAIN base |-> FilterNewer(base[k], t - w)]

CleanOldEntries(table, key, t, w) ==
  IF key \in DOMAIN table
  THEN [table EXCEPT ![key] = FilterNewer(@, t - w)]
  ELSE table @@ (key :> <<>>)

\* The limit test of line 111.
MutOverLimitOffByOne(userRequests, m) == Len(userRequests) > m

OverLimit(userRequests, m) == Len(userRequests) >= m

\* What is pushed onto the key's array when the request is let through.
MutNotRecorded(userRequests, t) == userRequests

MutRecordedUnshift(userRequests, t) == <<t>> \o userRequests

Recorded(userRequests, t) == Append(userRequests, t)

\* The table left behind by a denied request (the early return of line 112).
MutDeniedRecorded(cleaned, key, t) == [cleaned EXCEPT ![key] = Append(@, t)]

DeniedTable(cleaned, key, t) == cleaned

\* The key the limiter files a request under (req.ip).
MutSharedKey(ip) == 1

LimiterKey(ip) == ip

\* One invocation of the middleware returned by createRateLimiter:
\* the new table, the response (status 0: none sent) and whether next() ran.
RateLimiter(table, ip, t, w, m) ==
  LET key     == LimiterKey(ip)
      cleaned == CleanOldEntries(table, key, t, w)
      userRequests == cleaned[key]
  IN IF OverLimit(userRequests, m)
     THEN [table  |-> DeniedTable(cleaned, key, t),
           status |-> 429,
           error  |-> TooManyRequests,
           nextCalls |-> 0]
     ELSE [table  |-> [cleaned EXCEPT ![key] = Recorded(userRequests, t)],
           status |-> 0,
           error  |-> "",
           nextCalls |-> 1]

NoResult == [ip |-> 0, at |-> 0, status |-> 0, error |-> "", nextCalls |-> 0]

InitLimiter ==
  /\ now = 0
  /\ windowMs \in 1..MaxWindow
  /\ max \in 1..MaxLimit
  /\ requests = <<>>
  /\ admitted = [k \in Keys |-> <<>>]
  /\ denied = [k \in Keys |-> 0]
  /\ lres = NoResult
  /\ ncalls = 0

\* Date.now() moves on.
Tick ==
  /\ now < MaxTime
  /\ now' = now + 1
  /\ UNCHANGED <<windowMs, max, requests, admitted, denied, lres, ncalls>>

\* rateLimiter(req, res, next) with req.ip = ip.
LimiterCall(ip) ==
  /\ ncalls < MaxCalls
  /\ LET r == RateLimiter(requests, ip, now, windowMs, max)
     IN /\ requests' = r.table
        /\ lres' = [ip |-> ip, at |-> now, status |-> r.status,
                    error |-> r.error, nextCalls |-> r.nextCalls]
        /\ admitted' = IF r.nextCalls = 1
                       THEN [admitted EXCEPT ![ip] = Append(@, now)]
                       ELSE admitted
        /\ denied' = IF r.status = 429
                     THEN [denied EXCEPT ![ip] = @ + 1]
                     ELSE denied
  /\ ncalls' = ncalls + 1
  /\ UNCHANGED <<now, windowMs, max>>

\* ------------------------------------------------------- the credential
JWT_SECRET == "your-secret-key-for-testing"
JWT_EXPIRE == 2      \* the token's time to live ('7d'), in ticks of the clock

Roles == {"user", "admin"}

\* jwt.sign(payload, JWT_SECRET, {expiresIn, issuer, audience}) at time t.
MutGenerateTokenDefaultRole(user, t) ==
  [id |-> user.id, username |-> user.username, email |-> user.email,
   role |-> "user", iat |-> t, exp |-> t + JWT_EXPIRE,
   iss |-> "mern-testing-app", aud |-> "mern-testing-users",
   secret |-> JWT_SECRET]

GenerateToken(user, t) ==
  [id |-> user.id, username |-> user.username, email |-> user.email,
   role |-> user.role, iat |-> t, exp |-> t + JWT_EXPIRE,
   iss |-> "mern-testing-app", aud |-> "mern-testing-users",
   secret |-> JWT_SECRET]

\* A string is a sequence of symbols: a character, or a whole well-formed
\* JWT (the compact string jwt.sign returns, taken as one symbol).
Ch(c) == [ch |-> c]
Chars(s) == [i \in DOMAIN s |-> Ch(s[i])]
BearerPrefix == Chars(<<"B", "e", "a", "r", "e", "r", " ">>)

\* String.prototype.startsWith
StartsWith(s, prefix) ==
  /\ Len(s) >= Len(prefix)
  /\ SubSeq(s, 1, Len(prefix)) = prefix

\* String.prototype.substring(start)
MutSubstringOffByOne(s, start) == SubSeq(s, start + 2, Len(s))

Substring(s, start) == SubSeq(s, start + 1, Len(s))

\* What a call leaves its caller with: null, a string, or a thrown error.
Null == [kind |-> "null"]
Str(s) == [kind |-> "string", value |-> s]
Throws(e) == [kind |-> "throw", error |-> e]

\* A request object: without a headers property, with headers that hold
\* no authorization entry, or with an authorization header.
NoHeaders == <<>>
BareRequest == [url |-> "/"]
Request(header) ==
  IF header = <<>>
  THEN [headers |-> NoHeaders]
  ELSE [headers |-> [authorization |-> header]]

\* extractToken(req).  Reading .authorization of an undefined req.headers
\* throws a TypeError; an absent header is undefined, and as falsy as ''.
ExtractToken(req) ==
  IF "headers" \notin DOMAIN req
  THEN Throws("TypeError")
  ELSE IF "authorization" \notin DOMAIN req.headers
  THEN Null
  ELSE LET authHeader == req.headers.authorization
       IN IF authHeader = <<>> \/ ~StartsWith(authHeader, BearerPrefix)
          THEN Null
          ELSE Str(Substring(authHeader, 7))

\* !token (line 52): null and the empty string are falsy.
Falsy(v) == v.kind = "null" \/ (v.kind = "string" /\ v.value = <<>>)

IsJwt(sym) == "secret" \in DOMAIN sym

\* The signature check of jwt.verify.
MutAnySignature(tok) == TRUE

SignatureValid(tok) == tok.secret = JWT_SECRET

\* The expiry check of jwt.verify at time t.
MutExpiredLate(tok, t) == t > tok.exp

Expired(tok, t) == t >= tok.exp

\* jwt.verify(token, JWT_SECRET) at time t: "ok" and the payload, or the
\* message of the error it throws, which verifyToken logs and rethrows.
VerifyToken(token, t) ==
  IF token = <<>>
  THEN [ok |-> FALSE, error |-> "jwt must be provided"]
  ELSE IF Len(token) # 1 \/ ~IsJwt(token[1])
  THEN [ok |-> FALSE, error |-> "jwt malformed"]
  ELSE IF ~SignatureValid(token[1])
  THEN [ok |-> FALSE, error |-> "invalid signature"]
  ELSE IF Expired(token[1], t)
  THEN [ok |-> FALSE, error |-> "jwt expired"]
  ELSE [ok |-> TRUE, error |-> "", decoded |-> token[1]]

\* ---------------------------------------------------------- the middleware
NoUser == [id |-> 0, role |-> "", isActive |-> FALSE]
NoClaim == [id |-> 0]

\* What one middleware does with (req, res, next): the response it sends
\* (status 0: none), whether it calls next, and the req.user it leaves.
MutRejectFallsThrough(code, msg, user) ==
  [status |-> code, error |-> msg, callsNext |-> TRUE, user |-> user]

\* return res.status(code).json({ error: msg })
Reject(code, msg, user) ==
  [status |-> code, error |-> msg, callsNext |-> FALSE, user |-> user]

\* next()
Proceed(user) ==
  [status |-> 0, error |-> "", callsNext |-> TRUE, user |-> user]

\* The catch block of authenticate (lines 69-72): the error is logged,
\* the response does not carry it.
MutOnAuthErrorPropagates(error, user) ==
  Reject(500, "Internal Server Error", user)

MutOnAuthErrorLeaks(error, user) == Reject(401, error, user)

OnAuthError(error, user) == Reject(401, "Invalid token.", user)

\* authenticate up to the await of line 57: "lookup" when the query for
\* decoded.id is sent, otherwise the response.
AuthenticateBegin(req, user, t) ==
  LET token == ExtractToken(req)
  IN IF token.kind = "throw"
     THEN [await |-> FALSE, logged |-> token.error,
           out |-> OnAuthError(token.error, user)]
     ELSE IF Falsy(token)
     THEN [await |-> FALSE, logged |-> "",
           out |-> Reject(401, "Access denied. No token provided.", user)]
     ELSE LET v == VerifyToken(token.value, t)
          IN IF v.ok
             THEN [await |-> TRUE, logged |-> "", decoded |-> v.decoded]
             ELSE [await |-> FALSE, logged |-> v.error,
                   out |-> OnAuthError(v.error, user)]

\* User.findById(id): the record, or null (NoUser).
FindById(store, id) == IF id \in DOMAIN store THEN store[id] ELSE NoUser

\* The test of line 63.
MutNeverDeactivated(found) == FALSE

IsDeactivated(found) == ~found.isActive

\* The value assigned to req.user at line 67.
MutAttachClaim(found, decoded) ==
  [id |-> decoded.id, username |-> decoded.username, email |-> decoded.email,
   role |-> decoded.role, isActive |-> TRUE, profile |-> found.profile]

AttachedUser(found, decoded) == found

\* authenticate after the await: `found` is what findById resolved to.
MutResumeActiveFirst(found, decoded, user) ==
  IF IsDeactivated(found)
  THEN Reject(401, "Account is deactivated.", user)
  ELSE IF found = NoUser
  THEN Reject(401, "Invalid token. User not found.", user)
  ELSE Proceed(AttachedUser(found, decoded))

AuthenticateResume(found, decoded, user) ==
  IF found = NoUser
  THEN Reject(401, "Invalid token. User not found.", user)
  ELSE IF IsDeactivated(found)
  THEN Reject(401, "Account is deactivated.", user)
  ELSE Proceed(AttachedUser(found, decoded))

\* roles.includes(req.user.role)
MutAdminBypass(roles, role) == role \in roles \/ role = "admin"

RoleAllowed(roles, role) == role \in roles

\* The middleware authorize(...roles) returns.
Authorize(roles, user) ==
  IF user = NoUser
  THEN Reject(401, "Authentication required.", user)
  ELSE IF ~RoleAllowed(roles, user.role)
  THEN Reject(403, "Access denied. Insufficient permissions.", user)
  ELSE Proceed(user)

\* ------------------------------------------------------------- the routes
\* A route is a chain of middleware in the order of its declaration,
\* e.g. router.delete('/:id', authenticate, authorize('admin'), handler).
Guards == <<"limiter", "authenticate", "authorize">>

Chain(mounted) ==
  SelectSeq(Guards, LAMBDA g : g \in mounted) \o <<"handler">>

Headers ==
  {<<>>,
   BearerPrefix,
   BearerPrefix \o Chars(<<"x">>),
   Chars(<<"T", "o", "k", "e", "n", " ">>) \o Chars(<<"x">>)}
  \cup {BearerPrefix \o <<tok>> : tok \in issued}
  \cup {Chars(<<"b", "e", "a", "r", "e", "r", " ">>) \o <<tok>> : tok \in issued}
  \cup {BearerPrefix \o <<[tok EXCEPT !.secret = "wrong-secret"]>> : tok \in issued}

\* req.body of a request without one; the document a handler has not
\* loaded yet.
Undefined == "undefined"
NoBody == [profile |-> Undefined]
NoDoc == [id |-> 0]

Idle ==
  [pc |-> "idle", chain |-> <<>>, at |-> 0, roles |-> {}, ip |-> 0,
   header |-> <<>>, decoded |-> NoClaim, found |-> NoUser,
   lookup |-> "none", inactiveAtStart |-> FALSE, logged |-> "",
   user |-> NoUser, status |-> 0, error |-> "",
   ran |-> <<>>, nexts |-> <<>>, sentBy |-> <<>>,
   route |-> "", param |-> 0, body |-> NoBody, doc |-> NoDoc, paths |-> {}]

\* Express after the middleware at rq.at returned with outcome o: the
\* response is recorded, and next() hands the request to the following
\* middleware of the chain.
After(r, o) ==
  LET stage == r.chain[r.at]
      sent  == o.status # 0
  IN [r EXCEPT
        !.user   = o.user,
        !.status = IF sent THEN o.status ELSE @,
        !.error  = IF sent THEN o.error ELSE @,
        !.sentBy = IF sent THEN Append(@, stage) ELSE @,
        !.nexts  = IF o.callsNext THEN Append(@, stage) ELSE @,
        !.at     = IF o.callsNext THEN @ + 1 ELSE @,
        !.pc     = IF o.callsNext THEN r.chain[r.at + 1] ELSE "done"]

Enter(r) == [r EXCEPT !.ran = Append(@, r.pc)]

\* The username and email an identity registered with.
Username(u) == IF u = 1 THEN "admin" ELSE "testuser"
Email(u) == IF u = 1 THEN "admin@example.com" ELSE "test@example.com"

InitRoutes ==
  /\ users = [u \in UserIds |->
                [id |-> u, username |-> Username(u), email |-> Email(u),
                 role |-> IF u = 1 THEN "admin" ELSE "user",
                 isActive |-> TRUE, profile |-> [firstName |-> ""]]]
  /\ issued = {}
  /\ rq = Idle
  /\ nops = 0

\* No utility function has been called directly.
NoCall == [req |-> BareRequest, out |-> Null, called |-> FALSE]

\* A request that has not arrived yet.
NotArrived == [pc |-> "none", ip |-> 0, at |-> 0, status |-> 0]

InitUtil ==
  /\ extracted = NoCall
  /\ minted = {}
  /\ verdicts = {}
  /\ flight = [r \in 1..MaxInflight |-> NotArrived]

\* No limiter has been created with createRateLimiter yet.
NoInstanceCall ==
  [inst |-> 0, ip |-> 0, at |-> 0, status |-> 0, nextCalls |-> 0, n |-> 0]

InitInstances ==
  /\ tables = <<>>
  /\ instances = <<>>
  /\ ilast = NoInstanceCall

\* The posts written before the run: post 1 by user 2 (role user), post 2
\* by user 1 (role admin).
\* (title stands for the fields PUT /api/posts/:id assigns.)
NewPost(id, author, likes) ==
  [id |-> id, author |-> author, title |-> "First post", views |-> 0,
   likes |-> likes]

\* No toggleLike call yet on a post whose likes are `likes`.
NoToggles(likes) ==
  [n |-> 0, by |-> [u \in LikerIds |-> 0], user |-> 0, before |-> likes,
   first |-> likes]

\* A GET /api/posts/:id request that has not arrived yet.
NoPost == [id |-> 0]
NoGet == [pc |-> "none", post |-> NoPost, status |-> 0]

InitPosts ==
  /\ posts = (1 :> NewPost(1, 2, <<>>) @@ 2 :> NewPost(2, 1, <<>>))
  /\ gets = [r \in 1..MaxGets |-> NoGet]
  /\ tlog = NoToggles(<<>>)

InitCore == InitLimiter /\ InitRoutes /\ InitUtil /\ InitInstances

Init == InitCore /\ InitPosts

\* A client sends a request to a route.
StartRequest(mounted, roles, ip, header) ==
  /\ rq.pc = "idle"
  /\ rq' = [Idle EXCEPT !.chain = Chain(mounted), !.at = 1,
                        !.pc = Chain(mounted)[1],
                        !.roles = roles, !.ip = ip, !.header = header]
  /\ UNCHANGED <<users, issued, nops>>
  /\ UNCHANGED <<limiterVars, utilVars>>

\* The limiter as a middleware of the chain.  (admitted, denied, lres and
\* ncalls record the direct invocations only.)
StageLimiter ==
  /\ rq.pc = "limiter"
  /\ LET r == RateLimiter(requests, rq.ip, now, windowMs, max)
     IN /\ requests' = r.table
        /\ rq' = After(Enter(rq),
                       IF r.nextCalls = 1
                       THEN Proceed(rq.user)
                       ELSE Reject(r.status, r.error, rq.user))
  /\ UNCHANGED <<users, issued, nops>>
  /\ UNCHANGED <<now, windowMs, max, admitted, denied, lres, ncalls>>
  /\ UNCHANGED utilVars

\* authenticate, lines 49-57.
StageAuthenticate ==
  /\ rq.pc = "authenticate"
  /\ LET b == AuthenticateBegin(Request(rq.header), rq.user, now)
         r == [Enter(rq) EXCEPT
                 !.logged = b.logged,
                 !.inactiveAtStart =
                    /\ b.await
                    /\ ~FindById(users, b.decoded.id).isActive
                    /\ b.decoded.id \in DOMAIN users]
     IN rq' = IF b.await
              THEN [r EXCEPT !.pc = "lookup", !.decoded = b.decoded]
              ELSE After(r, b.out)
  /\ UNCHANGED <<users, issued, nops>>
  /\ UNCHANGED <<limiterVars, utilVars>>

\* The query resolves, authenticate goes on at line 59.
LookupResolves ==
  /\ rq.pc = "lookup"
  /\ LET found == FindById(users, rq.decoded.id)
     IN rq' = After([rq EXCEPT !.found = found,
                               !.lookup = IF found = NoUser THEN "null"
                                          ELSE "record"],
                    AuthenticateResume(found, rq.decoded, rq.user))
  /\ UNCHANGED <<users, issued, nops>>
  /\ UNCHANGED <<limiterVars, utilVars>>

\* The query rejects (the store is down): control goes to the catch block.
StoreError == "MongoNetworkError"

MutLookupFailsUnhandled ==
  /\ rq.pc = "lookup"
  /\ rq' = After([rq EXCEPT !.lookup = "error", !.logged = StoreError],
                 Reject(500, StoreError, rq.user))
  /\ UNCHANGED <<users, issued, nops>>
  /\ UNCHANGED <<limiterVars, utilVars>>

LookupFails ==
  /\ rq.pc = "lookup"
  /\ rq' = After([rq EXCEPT !.lookup = "error", !.logged = StoreError],
                 OnAuthError(StoreError, rq.user))
  /\ UNCHANGED <<users, issued, nops>>
  /\ UNCHANGED <<limiterVars, utilVars>>

StageAuthorize ==
  /\ rq.pc = "authorize"
  /\ rq' = After(Enter(rq), Authorize(rq.roles, rq.user))
  /\ UNCHANGED <<users, issued, nops>>
  /\ UNCHANGED <<limiterVars, utilVars>>

\* The business handler answers (res.json).
StageHandler ==
  /\ rq.pc = "handler"
  /\ rq' = [Enter(rq) EXCEPT !.pc = "done", !.status = 200,
                             !.sentBy = Append(@, "handler")]
  /\ UNCHANGED <<users, issued, nops>>
  /\ UNCHANGED <<limiterVars, utilVars>>

\* The response has gone out; the request object is dropped.
Close ==
  /\ rq.pc = "done"
  /\ rq' = Idle
  /\ UNCHANGED <<users, issued, nops>>
  /\ UNCHANGED <<limiterVars, utilVars>>

\* The middleware of a chain run to completion one after the other; other
\* requests run only before this one starts or while it waits for the
\* store at line 57.
HandlerAwaits ==
  {"putUser.find", "putUser.save", "putPost.find", "putPost.save",
   "deletePost.find", "deletePost.delete"}

Yielded == rq.pc \in {"idle", "lookup"} \cup HandlerAwaits

\* Login or registration of an active identity hands out a token.  (While
\* the request waits, a new token cannot reach it any more.)
IssueToken(u) ==
  /\ rq.pc = "idle"
  /\ nops < MaxOps
  /\ u \in DOMAIN users
  /\ users[u].isActive
  /\ issued' = issued \cup {GenerateToken(users[u], now)}
  /\ issued' # issued
  /\ nops' = nops + 1
  /\ UNCHANGED <<users, rq>>
  /\ UNCHANGED <<limiterVars, utilVars>>

\* An admin's PUT /api/users/:id sets role and isActive of an identity.
UpdateUser(u, role, isActive) ==
  /\ Yielded
  /\ nops < MaxOps
  /\ u \in DOMAIN users
  /\ users' = [users EXCEPT ![u].role = role, ![u].isActive = isActive]
  /\ users' # users
  /\ nops' = nops + 1
  /\ UNCHANGED <<issued, rq>>
  /\ UNCHANGED <<limiterVars, utilVars>>

\* An admin's DELETE /api/users/:id removes an identity.
DeleteUser(u) ==
  /\ Yielded
  /\ nops < MaxOps
  /\ u \in DOMAIN users
  /\ users' = [v \in DOMAIN users \ {u} |-> users[v]]
  /\ nops' = nops + 1
  /\ UNCHANGED <<issued, rq>>
  /\ UNCHANGED <<limiterVars, utilVars>>

\* (Nothing reads the clock after the await of line 57, and the
\* middleware before it run within one tick.)
TickAll == rq.pc = "idle" /\ Tick /\ UNCHANGED <<routeVars, utilVars>>

LimiterNext ==
  \/ TickAll
  \/ \E ip \in Keys : LimiterCall(ip) /\ UNCHANGED <<routeVars, utilVars>>

\* The limiter invoked directly, as a caller holding the middleware does.
LimiterSpec == Init /\ [][LimiterNext]_vars

\* The role lists a route passes to authorize.
RoleLists(mounted) ==
  IF "authorize" \in mounted THEN SUBSET Roles ELSE {{}}

Environment ==
  \/ TickAll
  \/ \E u \in UserIds : IssueToken(u)
  \/ \E u \in UserIds : \E role \in Roles : \E isActive \in BOOLEAN :
       UpdateUser(u, role, isActive)
  \/ \E u \in UserIds : DeleteUser(u)

Stages ==
  \/ StageAuthenticate
  \/ LookupResolves
  \/ LookupFails
  \/ StageAuthorize
  \/ StageHandler
  \/ Close

AuthNext ==
  \/ \E mounted \in SUBSET {"authenticate", "authorize"} :
       \E roles \in RoleLists(mounted) : \E header \in Headers :
         StartRequest(mounted, roles, 1, header)
  \/ Stages
  \/ Environment

\* Requests to routes guarded by authenticate and authorize, with the
\* store changing under them; no limiter is mounted.
AuthInit == Init /\ windowMs = 1 /\ max = 1

AuthSpec == AuthInit /\ [][AuthNext]_vars

\* The same requests under the scheduling Node guarantees: a middleware
\* that can run does run, and a finished response is sent.  Nothing
\* obliges the store to settle the query of line 57, and authenticate
\* sets no timer of its own.
AuthLiveSpec ==
  /\ AuthInit
  /\ [][AuthNext]_vars
  /\ WF_vars(StageAuthenticate)
  /\ WF_vars(StageAuthorize)
  /\ WF_vars(StageHandler)
  /\ WF_vars(Close)

Next ==
  \/ \E guards \in SUBSET {"authenticate", "authorize"} :
       \E header \in Headers :
         StartRequest(guards \cup {"limiter"},
                      IF "authorize" \in guards THEN {"admin"} ELSE {},
                      1, header)
  \/ StageLimiter
  \/ Stages
  \/ Environment

\* Requests of one client to routes with a limiter, created by
\* createRateLimiter(MaxWindow, 1), mounted in front of the guards.
RouteInit == Init /\ windowMs = MaxWindow /\ max = 1

Spec == RouteInit /\ [][Next]_vars

\* ------------------------------------ the limiter, statement by statement
\* The handler createRateLimiter returns is a synchronous function: it has
\* no await, so once it has started nothing else runs until it returns.
MutHandlerYields == TRUE

HandlerYields == FALSE

\* Request r is between two statements of the handler.
Mid(r) == flight[r].pc \in {"pruned", "decided"}

\* The event loop may run a statement of request r's handler.
CanRun(r) == HandlerYields \/ \A q \in DOMAIN flight \ {r} : ~Mid(q)

\* A request of client ip reaches the limiter; its handler is due to run.
Arrive(r, ip) ==
  /\ flight[r].pc = "none"
  /\ \A q \in 1..(r - 1) : flight[q].pc # "none"
  /\ flight' = [flight EXCEPT ![r] = [NotArrived EXCEPT !.pc = "arrived",
                                                        !.ip = ip]]
  /\ UNCHANGED <<limiterVars, routeVars, codecVars, instVars, postVars>>

\* Lines 97-107: the key, the time, and the pruned (or new) entry.
LimPrune(r) ==
  /\ flight[r].pc = "arrived"
  /\ CanRun(r)
  /\ requests' = CleanOldEntries(requests, LimiterKey(flight[r].ip), now,
                                 windowMs)
  /\ flight' = [flight EXCEPT ![r].pc = "pruned", ![r].at = now]
  /\ UNCHANGED <<now, windowMs, max, admitted, denied, lres, ncalls>>
  /\ UNCHANGED <<routeVars, codecVars, instVars, postVars>>

\* Lines 109-115: the entry is read and tested against max.
LimDecide(r) ==
  /\ flight[r].pc = "pruned"
  /\ CanRun(r)
  /\ LET over == OverLimit(requests[LimiterKey(flight[r].ip)], max)
     IN /\ flight' = [flight EXCEPT
                        ![r].pc = IF over THEN "done" ELSE "decided",
                        ![r].status = IF over THEN 429 ELSE 0]
        /\ denied' = IF over THEN [denied EXCEPT ![flight[r].ip] = @ + 1]
                     ELSE denied
  /\ UNCHANGED <<now, windowMs, max, requests, admitted, lres, ncalls>>
  /\ UNCHANGED <<routeVars, codecVars, instVars, postVars>>

\* Lines 117-118: the time read at line 98 is pushed, and next() called.
LimAppend(r) ==
  /\ flight[r].pc = "decided"
  /\ CanRun(r)
  /\ requests' = [requests EXCEPT ![LimiterKey(flight[r].ip)] =
                                     Recorded(@, flight[r].at)]
  /\ admitted' = [admitted EXCEPT ![flight[r].ip] = Append(@, flight[r].at)]
  /\ flight' = [flight EXCEPT ![r].pc = "done"]
  /\ UNCHANGED <<now, windowMs, max, denied, lres, ncalls>>
  /\ UNCHANGED <<routeVars, codecVars, instVars, postVars>>

ConcNext ==
  \/ TickAll
  \/ \E r \in 1..MaxInflight : \E ip \in Keys : Arrive(r, ip)
  \/ \E r \in 1..MaxInflight : LimPrune(r)
  \/ \E r \in 1..MaxInflight : LimDecide(r)
  \/ \E r \in 1..MaxInflight : LimAppend(r)

\* Several requests in flight at the limiter, scheduled as Node does.
ConcSpec == Init /\ [][ConcNext]_vars

\* ------------------------------------------------ several limiter instances
\* const requests = new Map() (line 94): the Map a call of
\* createRateLimiter allocates, given the number allocated before.
MutModuleTable(allocated) == 1

NewTable(allocated) == allocated + 1

\* createRateLimiter(w, m): the closure over a table, w and m.
CreateRateLimiter(w, m) ==
  /\ Len(instances) + 1 \in InstanceIds
  /\ LET slot == NewTable(Len(tables))
     IN /\ tables' = IF slot > Len(tables) THEN Append(tables, <<>>)
                     ELSE tables
        /\ instances' = Append(instances,
                               [windowMs |-> w, max |-> m, table |-> slot,
                                admitted |-> [k \in Keys |-> <<>>]])
  /\ UNCHANGED ilast
  /\ UNCHANGED <<limiterVars, routeVars, codecVars, concVars, postVars>>

\* The limiter instances[i] handles a request of client ip.
InstanceCall(i, ip) ==
  /\ i \in DOMAIN instances
  /\ ilast.n < MaxInstCalls
  /\ LET inst == instances[i]
         r == RateLimiter(tables[inst.table], ip, now, inst.windowMs, inst.max)
     IN /\ tables' = [tables EXCEPT ![inst.table] = r.table]
        /\ instances' = [instances EXCEPT ![i].admitted[ip] =
                            IF r.nextCalls = 1 THEN Append(@, now) ELSE @]
        /\ ilast' = [inst |-> i, ip |-> ip, at |-> now, status |-> r.status,
                     nextCalls |-> r.nextCalls, n |-> ilast.n + 1]
  /\ UNCHANGED <<limiterVars, routeVars, codecVars, concVars, postVars>>

InstNext ==
  \/ TickAll
  \/ CreateRateLimiter(windowMs, max)
  \/ \E i \in InstanceIds : \E ip \in Keys : InstanceCall(i, ip)

\* Limiters created one after the other with one configuration, as
\* beforeEach of the tests does.
InstSpec == Init /\ [][InstNext]_vars

\* ------------------------------------------------------ toggleLike, in turn
\* Array.prototype.indexOf, 0-based, -1 when absent.
IndexOf(s, x) ==
  IF \E i \in DOMAIN s : s[i] = x
  THEN (CHOOSE i \in DOMAIN s : s[i] = x /\ \A j \in 1..(i - 1) : s[j] # x) - 1
  ELSE -1

\* s.splice(start, 1): the element at the 0-based index start is removed.
Splice(s, start) ==
  [i \in 1..(Len(s) - 1) |-> IF i <= start THEN s[i] ELSE s[i + 1]]

\* postSchema.methods.toggleLike: the likes array it saves.
MutToggleAlwaysPush(likes, userId) == Append(likes, userId)

ToggleLike(likes, userId) ==
  LET likeIndex == IndexOf(likes, userId)
  IN IF likeIndex = -1
     THEN Append(likes, userId)
     ELSE Splice(likes, likeIndex)

\* post.toggleLike(userId) on post 1, run to the end of its save before
\* the next call starts.
ToggleLikeCall(userId) ==
  /\ tlog.n < MaxToggles
  /\ 1 \in DOMAIN posts
  /\ posts' = [posts EXCEPT ![1].likes = ToggleLike(@, userId)]
  /\ tlog' = [tlog EXCEPT !.n = @ + 1, !.by[userId] = @ + 1,
                          !.user = userId, !.before = posts[1].likes]
  /\ UNCHANGED gets
  /\ UNCHANGED <<limiterVars, routeVars, codecVars, concVars, instVars>>

\* The likes lists without duplicates.
LikesLists ==
  {s \in UNION {[1..n -> LikerIds] : n \in 0..Cardinality(LikerIds)} :
     \A i, j \in DOMAIN s : s[i] = s[j] => i = j}

InitLikes ==
  /\ \E likes \in LikesLists :
       /\ posts = (1 :> NewPost(1, 2, likes))
       /\ tlog = NoToggles(likes)
  /\ gets = [r \in 1..MaxGets |-> NoGet]

LikeInit == InitCore /\ windowMs = 1 /\ max = 1 /\ InitLikes

LikeNext == \E userId \in LikerIds : ToggleLikeCall(userId)

\* toggleLike calls one after the other on a post whose likes hold no
\* duplicates.
LikeSpec == LikeInit /\ [][LikeNext]_vars

\* ------------------------------------------------- GET /api/posts/:id
\* Post.findById(id): the document, or null (NoPost).
FindPostById(store, id) == IF id \in DOMAIN store THEN store[id] ELSE NoPost

\* doc.save(): the modified paths of the document are written to the
\* stored one ($set); the other paths of the stored document stay.
Save(store, doc, paths) ==
  [store EXCEPT ![doc.id] =
     [f \in DOMAIN @ |-> IF f \in paths THEN doc[f] ELSE @[f]]]

\* this.views += 1 of incrementViews; the save follows the await.
IncrementViews(post) == [post EXCEPT !.views = @ + 1]

\* The handler up to the await of incrementViews: the query resolves, a
\* missing post is answered 404, else the loaded document is incremented
\* and its save is sent.
GetFind(r, id) ==
  /\ gets[r].pc = "none"
  /\ LET post == FindPostById(posts, id)
     IN gets' = [gets EXCEPT ![r] =
                   IF post = NoPost
                   THEN [pc |-> "done", post |-> NoPost, status |-> 404]
                   ELSE [pc |-> "saving", post |-> IncrementViews(post),
                         status |-> 0]]
  /\ UNCHANGED <<posts, tlog>>
  /\ UNCHANGED <<limiterVars, routeVars, codecVars, concVars, instVars>>

\* The save reaches the store.
GetSave(r) ==
  /\ gets[r].pc = "saving"
  /\ posts' = Save(posts, gets[r].post, {"views"})
  /\ gets' = [gets EXCEPT ![r].pc = "saved"]
  /\ UNCHANGED tlog
  /\ UNCHANGED <<limiterVars, routeVars, codecVars, concVars, instVars>>

\* res.json({ post })
GetRespond(r) ==
  /\ gets[r].pc = "saved"
  /\ gets' = [gets EXCEPT ![r].pc = "done", ![r].status = 200]
  /\ UNCHANGED <<posts, tlog>>
  /\ UNCHANGED <<limiterVars, routeVars, codecVars, concVars, instVars>>

\* req.params.id: the two stored posts and an id no post has.
PostIds == {1, 2, 3}

ViewNext ==
  \E r \in 1..MaxGets :
    \/ \E id \in PostIds : GetFind(r, id)
    \/ GetSave(r)
    \/ GetRespond(r)

ViewInit == Init /\ windowMs = 1 /\ max = 1

\* GET requests for the stored posts and for a missing one, each handler
\* going on whenever one of its awaits settles.
ViewSpec == ViewInit /\ [][ViewNext]_vars

\* ------------------------------------------------------ PUT /api/users/:id
\* A client sends a request to a route that mounts authenticate before
\* its handler.
StartApiRequest(route, param, body, header) ==
  /\ rq.pc = "idle"
  /\ rq' = [Idle EXCEPT !.chain = <<"authenticate", route>>, !.at = 1,
                        !.pc = "authenticate", !.ip = 1, !.header = header,
                        !.route = route, !.param = param, !.body = body]
  /\ UNCHANGED <<users, issued, nops>>
  /\ UNCHANGED <<limiterVars, utilVars>>

\* return res.status(status).json({ error }) in a handler.
Finish(r, status, error) ==
  [r EXCEPT !.pc = "done", !.status = status, !.error = error,
            !.sentBy = Append(@, r.route)]

\* The validators of the route: role optional and one of user, admin;
\* isActive optional and a boolean.  (profile.firstName at most 50
\* characters: the names sent here are short.)
ValidUserBody(body) ==
  /\ body.role \in {Undefined, "user", "admin"}
  /\ body.isActive \in {Undefined, "true", "false"}

\* The cast of a validated isActive to the schema's Boolean.
ToBoolean(v) == v = "true"

\* if (req.user.role === 'admin') of line 1279.
MutAnyoneChangesPrivileges(requester) == TRUE

MayChangePrivileges(requester) == requester.role = "admin"

\* Lines 1274-1282: what the handler assigns to the loaded document.
AssignUser(user, body, requester) ==
  LET named == IF body.profile # Undefined
               THEN [user EXCEPT !.profile.firstName = body.profile]
               ELSE user
      priv  == MayChangePrivileges(requester)
      roled == IF priv /\ body.role # Undefined
               THEN [named EXCEPT !.role = body.role]
               ELSE named
  IN IF priv /\ body.isActive # Undefined
     THEN [roled EXCEPT !.isActive = ToBoolean(body.isActive)]
     ELSE roled

\* The paths of a document the handler has modified.
ModifiedPaths(loaded, doc) == {f \in DOMAIN doc : doc[f] # loaded[f]}

\* The handler up to the await of findById (lines 1257-1266).
PutUserBegin ==
  /\ rq.pc = "putUser"
  /\ rq' = IF ~ValidUserBody(rq.body)
           THEN Finish(Enter(rq), 400, "Validation failed")
           ELSE [Enter(rq) EXCEPT !.pc = "putUser.find"]
  /\ UNCHANGED <<users, issued, nops>>
  /\ UNCHANGED <<limiterVars, utilVars>>

\* findById resolved: lines 1268-1284, up to the await of save.
PutUserFound ==
  /\ rq.pc = "putUser.find"
  /\ LET user == FindById(users, rq.param)
     IN rq' = IF user = NoUser
              THEN Finish(rq, 404, "User not found")
              ELSE IF rq.user.id # rq.param /\ rq.user.role # "admin"
              THEN Finish(rq, 403, "Not authorized to update this profile")
              ELSE LET doc == AssignUser(user, rq.body, rq.user)
                   IN [rq EXCEPT !.pc = "putUser.save", !.doc = doc,
                                 !.paths = ModifiedPaths(user, doc)]
  /\ UNCHANGED <<users, issued, nops>>
  /\ UNCHANGED <<limiterVars, utilVars>>

\* The save settles (lines 1284-1291); saving a document that has been
\* removed meanwhile fails and is answered by the catch block.
PutUserSaved ==
  /\ rq.pc = "putUser.save"
  /\ IF rq.paths = {} \/ rq.doc.id \in DOMAIN users
     THEN /\ users' = IF rq.paths = {} THEN users
                      ELSE Save(users, rq.doc, rq.paths)
          /\ rq' = Finish(rq, 200, "")
     ELSE /\ users' = users
          /\ rq' = Finish(rq, 500, "Server error during user update")
  /\ UNCHANGED <<issued, nops>>
  /\ UNCHANGED <<limiterVars, utilVars>>

\* The bodies and headers clients send.
UserBodies ==
  {[profile |-> p, role |-> r, isActive |-> a] :
     p \in {Undefined, "Ada"}, r \in {Undefined, "admin", "root"},
     a \in {Undefined, "false"}}

ApiHeaders == {<<>>} \cup {BearerPrefix \o <<tok>> : tok \in issued}

UserApiNext ==
  \/ \E param \in UserIds : \E body \in UserBodies :
       \E header \in ApiHeaders :
         StartApiRequest("putUser", param, body, header)
  \/ StageAuthenticate
  \/ LookupResolves
  \/ PutUserBegin
  \/ PutUserFound
  \/ PutUserSaved
  \/ Close
  \/ \E u \in UserIds : IssueToken(u)
  \/ \E u \in UserIds : \E role \in Roles : \E isActive \in BOOLEAN :
       UpdateUser(u, role, isActive)
  \/ \E u \in UserIds : DeleteUser(u)

UserApiInit == Init /\ windowMs = 1 /\ max = 1

\* PUT /api/users/:id requests, with logins and other requests' updates
\* and deletions running while one waits for the store.
UserApiSpec == UserApiInit /\ [][UserApiNext]_vars

\* ------------------------------------- PUT and DELETE /api/posts/:id
\* String.prototype.length of the titles sent here.
Length(str) == IF str = "Hi" THEN 2 ELSE 12

\* validatePost: the title has 3 to 200 characters.  (The bodies sent
\* here carry a valid content and category.)
ValidPostBody(body) == Length(body.title) >= 3 /\ Length(body.title) <= 200

\* post.author.toString() !== req.user._id.toString()
\*   && req.user.role !== 'admin'
MutNeverRefused(post, user) == FALSE

NotAuthorized(post, user) == post.author # user.id /\ user.role # "admin"

\* Object.assign(post, { title, ... })
AssignPost(post, body) == [post EXCEPT !.title = body.title]

\* PUT: the handler up to the await of findById.
PutPostBegin ==
  /\ rq.pc = "putPost"
  /\ rq' = IF ~ValidPostBody(rq.body)
           THEN Finish(Enter(rq), 400, "Validation failed")
           ELSE [Enter(rq) EXCEPT !.pc = "putPost.find"]
  /\ UNCHANGED posts
  /\ UNCHANGED <<users, issued, nops>>
  /\ UNCHANGED <<limiterVars, codecVars, concVars, instVars, gets, tlog>>

\* PUT: findById resolved; 404, 403, or the assignment and the save.
PutPostFound ==
  /\ rq.pc = "putPost.find"
  /\ LET post == FindPostById(posts, rq.param)
     IN rq' = IF post = NoPost
              THEN Finish(rq, 404, "Post not found")
              ELSE IF NotAuthorized(post, rq.user)
              THEN Finish(rq, 403, "Not authorized to update this post")
              ELSE LET doc == AssignPost(post, rq.body)
                   IN [rq EXCEPT !.pc = "putPost.save", !.doc = doc,
                                 !.paths = ModifiedPaths(post, doc)]
  /\ UNCHANGED posts
  /\ UNCHANGED <<users, issued, nops>>
  /\ UNCHANGED <<limiterVars, codecVars, concVars, instVars, gets, tlog>>

\* PUT: the save settles; saving a post removed meanwhile fails.
PutPostSaved ==
  /\ rq.pc = "putPost.save"
  /\ IF rq.paths = {} \/ rq.doc.id \in DOMAIN posts
     THEN /\ posts' = IF rq.paths = {} THEN posts
                      ELSE Save(posts, rq.doc, rq.paths)
          /\ rq' = Finish(rq, 200, "")
     ELSE /\ posts' = posts
          /\ rq' = Finish(rq, 500, "Server error during post update")
  /\ UNCHANGED <<users, issued, nops>>
  /\ UNCHANGED <<limiterVars, codecVars, concVars, instVars, gets, tlog>>

\* DELETE: the handler sends findById.
DeletePostBegin ==
  /\ rq.pc = "deletePost"
  /\ rq' = [Enter(rq) EXCEPT !.pc = "deletePost.find"]
  /\ UNCHANGED posts
  /\ UNCHANGED <<users, issued, nops>>
  /\ UNCHANGED <<limiterVars, codecVars, concVars, instVars, gets, tlog>>

\* DELETE: findById resolved; 404, 403, or findByIdAndDelete is sent.
DeletePostFound ==
  /\ rq.pc = "deletePost.find"
  /\ LET post == FindPostById(posts, rq.param)
     IN rq' = IF post = NoPost
              THEN Finish(rq, 404, "Post not found")
              ELSE IF NotAuthorized(post, rq.user)
              THEN Finish(rq, 403, "Not authorized to delete this post")
              ELSE [rq EXCEPT !.pc = "deletePost.delete", !.doc = post]
  /\ UNCHANGED posts
  /\ UNCHANGED <<users, issued, nops>>
  /\ UNCHANGED <<limiterVars, codecVars, concVars, instVars, gets, tlog>>

\* DELETE: findByIdAndDelete settles.
DeletePostDeleted ==
  /\ rq.pc = "deletePost.delete"
  /\ posts' = [id \in DOMAIN posts \ {rq.param} |-> posts[id]]
  /\ rq' = Finish(rq, 200, "")
  /\ UNCHANGED <<users, issued, nops>>
  /\ UNCHANGED <<limiterVars, codecVars, concVars, instVars, gets, tlog>>

PostBodies == {[title |-> "Hi"], [title |-> "Second title"]}

PostApiNext ==
  \/ \E param \in PostIds : \E header \in ApiHeaders :
       \/ \E body \in PostBodies : StartApiRequest("putPost", param, body, header)
       \/ StartApiRequest("deletePost", param, NoBody, header)
  \/ StageAuthenticate
  \/ LookupResolves
  \/ PutPostBegin
  \/ PutPostFound
  \/ PutPostSaved
  \/ DeletePostBegin
  \/ DeletePostFound
  \/ DeletePostDeleted
  \/ Close
  \/ \E u \in UserIds : IssueToken(u)
  \/ \E u \in UserIds : \E role \in Roles : \E isActive \in BOOLEAN :
       UpdateUser(u, role, isActive)
  \/ \E u \in UserIds : DeleteUser(u)

PostApiInit == Init /\ windowMs = 1 /\ max = 1

\* PUT and DELETE /api/posts/:id requests, with logins and other
\* requests' changes of the identities running while one waits.
PostApiSpec == PostApiInit /\ [][PostApiNext]_vars

\* ------------------------------------------- extractToken called directly
\* The header values tried: a scheme, or none, followed by up to MaxLen
\* characters.
Alphabet == {"a", ".", " "}
Remainders == UNION {[1..k -> Alphabet] : k \in 0..MaxLen}
Schemes ==
  {<<>>,
   <<"B", "e", "a", "r", "e", "r", " ">>,
   <<"b", "e", "a", "r", "e", "r", " ">>,
   <<"B", "E", "A", "R", "E", "R", " ">>,
   <<"B", "e", "a", "r", "e", "r">>,
   <<" ", "B", "e", "a", "r", "e", "r", " ">>,
   <<"T", "o", "k", "e", "n", " ">>}
HeaderValues == {Chars(scheme \o rest) : scheme \in Schemes, rest \in Remainders}

ExtractRequests ==
  {BareRequest, [headers |-> NoHeaders]}
  \cup {[headers |-> [authorization |-> h]] : h \in HeaderValues}

\* extractToken(req), as the unit tests call it.
ExtractCall(req) ==
  /\ extracted' = [req |-> req, out |-> ExtractToken(req), called |-> TRUE]
  /\ UNCHANGED <<minted, verdicts>>
  /\ UNCHANGED <<concVars, instVars, postVars>>
  /\ UNCHANGED <<limiterVars, routeVars>>

ExtractNext == \E req \in ExtractRequests : ExtractCall(req)

ExtractInit == Init /\ windowMs = 1 /\ max = 1

ExtractSpec == ExtractInit /\ [][ExtractNext]_vars

\* ------------------------------- generateToken, verifyToken called directly
\* The user records generateToken is called with.
CodecUsers ==
  {[id |-> u, username |-> Username(u), email |-> Email(u), role |-> r] :
     u \in UserIds, r \in Roles}

\* The strings verifyToken is called with: the empty string, a string
\* that is no JWT, and for each token handed out the token itself, the
\* same payload signed with another secret, and the token with a
\* character appended.
Candidates ==
  {<<>>, Chars(<<"x">>)}
  \cup {<<m.token>> : m \in minted}
  \cup {<<[m.token EXCEPT !.secret = "wrong-secret"]>> : m \in minted}
  \cup {<<m.token, Ch("x")>> : m \in minted}

CodecCalls == Cardinality(minted) + Cardinality(verdicts)

\* generateToken(user) at the current time.
GenerateCall(user) ==
  /\ CodecCalls < MaxCodecCalls
  /\ minted' = minted \cup {[user |-> user, at |-> now,
                              token |-> GenerateToken(user, now)]}
  /\ minted' # minted
  /\ UNCHANGED <<extracted, verdicts>>
  /\ UNCHANGED <<concVars, instVars, postVars>>
  /\ UNCHANGED <<limiterVars, routeVars>>

\* verifyToken(token) at the current time.
VerifyCall(token) ==
  /\ CodecCalls < MaxCodecCalls
  /\ verdicts' = verdicts \cup {[token |-> token, at |-> now,
                                  out |-> VerifyToken(token, now)]}
  /\ verdicts' # verdicts
  /\ UNCHANGED <<extracted, minted>>
  /\ UNCHANGED <<concVars, instVars, postVars>>
  /\ UNCHANGED <<limiterVars, routeVars>>

CodecNext ==
  \/ TickAll
  \/ \E user \in CodecUsers : GenerateCall(user)
  \/ \E token \in Candidates : VerifyCall(token)

CodecInit == Init /\ windowMs = 1 /\ max = 1

CodecSpec == CodecInit /\ [][CodecNext]_vars

\* ----------------------------------------------------- limiter: the claims
\* A step that is one invocation of the limiter.
IsLimiterCall == ncalls' = ncalls + 1

\* The stored timestamps of key k that a request at time t still counts.
Retained(k, t) ==
  IF k \in DOMAIN requests
  THEN SelectSeq(requests[k], LAMBDA x : x > t - windowMs)
  ELSE <<>>

\* Number of admissions of key k with a timestamp in (t - windowMs, t].
AdmittedIn(k, t) ==
  Cardinality({i \in DOMAIN admitted[k] :
                 admitted[k][i] > t - windowMs /\ admitted[k][i] <= t})

IsSuffix(s, t) ==
  /\ Len(s) <= Len(t)
  /\ \A i \in 1..Len(s) : s[i] = t[Len(t) - Len(s) + i]

Last(s) == s[Len(s)]

\* C1: for every key and every instant t, at most max requests of the key
\* were admitted with a timestamp in the half-open interval
\* (t - windowMs, t], wherever on the time axis the interval lies.
C1_SlidingWindowBound ==
  \A k \in Keys : \A t \in 0..MaxTime : AdmittedIn(k, t) <= max

\* C1 witness: with windowMs = 2 and max = 2 a burst at times 1 and 2
\* straddles the boundary of the fixed buckets [0,2) and [2,4), and the
\* third request, at time 2, was denied.
C1_Witness ==
  /\ windowMs = 2 /\ max = 2
  /\ lres.status = 429 /\ lres.at = 2
  /\ admitted[lres.ip] = <<1, 2>>

\* C2: every invocation prunes the key's timestamps; with max or more
\* retained it answers 429 with the fixed error body and does not call
\* next, otherwise it calls next once, sets no status and appends exactly
\* one timestamp equal to now.  The first max requests of a key inside
\* one window are admitted and the next one is denied.
C2_Decision ==
  [][IsLimiterCall =>
       LET k == lres'.ip
           kept == Retained(k, now)
       IN /\ lres'.at = now
          /\ IF Len(kept) >= max
             THEN /\ lres'.status = 429
                  /\ lres'.error = "Too many requests. Please try again later."
                  /\ lres'.nextCalls = 0
                  /\ admitted' = admitted
             ELSE /\ lres'.status = 0
                  /\ lres'.nextCalls = 1
                  /\ requests'[k] = Append(kept, now)
                  /\ admitted'[k] = Append(admitted[k], now)
          /\ (admitted[k] = <<>> \/ admitted[k][1] > now - windowMs)
               => (lres'.nextCalls = 1 <=> Len(admitted[k]) < max)
    ]_vars

\* C2 witness: a key was admitted exactly max times and then denied, all
\* inside one window.
C2_Witness ==
  /\ lres.status = 429
  /\ Len(admitted[lres.ip]) = max
  /\ admitted[lres.ip][1] > lres.at - windowMs
  /\ max = 2

\* C3: a denied request is not recorded: the key's sequence after the
\* call is its pruned sequence, the stored timestamps are always
\* timestamps of admitted requests, so denied attempts do not postpone
\* the next admission.
C3_DeniedNotRecorded ==
  [][IsLimiterCall =>
       LET k == lres'.ip
       IN /\ lres'.status = 429 =>
               /\ requests'[k] = Retained(k, now)
               /\ admitted' = admitted
          /\ \A j \in DOMAIN requests' : IsSuffix(requests'[j], admitted'[j])
    ]_vars

\* C3 witness: with max = 1 a key was admitted, denied at least twice,
\* and admitted again exactly windowMs after its first admission.
C3_Witness ==
  /\ max = 1
  /\ lres.nextCalls = 1
  /\ denied[lres.ip] >= 2
  /\ Len(admitted[lres.ip]) = 2
  /\ admitted[lres.ip][2] = admitted[lres.ip][1] + windowMs

\* C4: a request of one key leaves every other key's sequence (and
\* entry) as it was, and its decision is a function of the key's own
\* admissions only.
C4_KeyIndependence ==
  [][IsLimiterCall =>
       LET k == lres'.ip
       IN /\ \A j \in Keys \ {k} :
               /\ (j \in DOMAIN requests') <=> (j \in DOMAIN requests)
               /\ j \in DOMAIN requests => requests'[j] = requests[j]
               /\ admitted'[j] = admitted[j]
               /\ denied'[j] = denied[j]
          /\ lres'.nextCalls = 1 <=> AdmittedIn(k, now) < max
    ]_vars

\* C4 witness: key 1 has used up its quota and was denied, and a request
\* of key 2 is admitted inside the same window.
C4_Witness ==
  /\ lres.ip = 2 /\ lres.nextCalls = 1
  /\ 1 \in DOMAIN requests
  /\ Len(requests[1]) = max
  /\ \A i \in DOMAIN requests[1] : requests[1][i] > lres.at - windowMs
  /\ denied[1] >= 1

\* C5: a stored timestamp t is dropped by a request at time now exactly
\* when t <= now - windowMs; a request that finds the key's oldest
\* retained timestamp at least windowMs old is admitted, and so is one
\* arriving windowMs or more after the key's last admission.
C5_QuotaRecovery ==
  [][IsLimiterCall =>
       LET k == lres'.ip
           old == IF k \in DOMAIN requests THEN requests[k] ELSE <<>>
           new == IF lres'.nextCalls = 1
                  THEN SubSeq(requests'[k], 1, Len(requests'[k]) - 1)
                  ELSE requests'[k]
           dropped == Len(old) - Len(new)
       IN /\ IsSuffix(new, old)
          /\ \A i \in 1..Len(old) :
               (i <= dropped) <=> (old[i] <= now - windowMs)
          /\ (old # <<>> /\ now - old[1] >= windowMs) => lres'.nextCalls = 1
          /\ (admitted[k] # <<>> /\ now - Last(admitted[k]) >= windowMs)
               => lres'.nextCalls = 1
    ]_vars

\* C5 witness: with max = 2 a key was admitted twice, denied, and then
\* admitted by a request arriving exactly windowMs after its oldest
\* timestamp.
C5_Witness ==
  /\ max = 2
  /\ lres.nextCalls = 1
  /\ denied[lres.ip] >= 1
  /\ Len(admitted[lres.ip]) = 3
  /\ admitted[lres.ip][3] = admitted[lres.ip][1] + windowMs

\* ------------------------------------------------------ routes: the claims
Count(x, s) == Cardinality({i \in DOMAIN s : s[i] = x})

\* The steps of authenticate: up to the await, and from the await on.
AuthBeginStep == rq.pc = "authenticate" /\ rq'.pc # "authenticate"
AuthLookupStep == rq.pc = "lookup" /\ rq'.pc # "lookup"
AuthorizeStep == rq.pc = "authorize" /\ rq'.pc # "authorize"

\* authenticate answered 401 and did nothing else.
Refused401 ==
  /\ rq'.pc = "done"
  /\ rq'.status = 401
  /\ rq'.error # ""
  /\ rq'.sentBy = Append(rq.sentBy, "authenticate")
  /\ rq'.nexts = rq.nexts
  /\ rq'.user = NoUser

\* C6: authenticate calls next, with req.user attached, exactly when a
\* bearer token is extracted, verifyToken accepts it, the store returns a
\* record for the decoded id and the record is active; otherwise it
\* answers 401 with an error body, does not call next and leaves req.user
\* unset.  Exactly one of the two happens.
C6_AuthenticateGate ==
  [][/\ AuthBeginStep =>
          LET token == ExtractToken(Request(rq.header))
          IN IF /\ token.kind = "string" /\ token.value # <<>>
                /\ VerifyToken(token.value, now).ok
             THEN /\ rq'.pc = "lookup"
                  /\ rq'.nexts = rq.nexts /\ rq'.sentBy = rq.sentBy
                  /\ rq'.decoded = token.value[1]
             ELSE Refused401
     /\ AuthLookupStep =>
          IF /\ rq'.lookup = "record"
             /\ rq.decoded.id \in DOMAIN users
             /\ users[rq.decoded.id].isActive
          THEN /\ rq'.nexts = Append(rq.nexts, "authenticate")
               /\ rq'.sentBy = rq.sentBy
               /\ rq'.status = 0
               /\ rq'.user # NoUser
               /\ rq'.user.id = rq.decoded.id
          ELSE Refused401
    ]_vars

\* C6 witness: authenticate has called next once, with an active identity
\* attached and no response sent.
C6_Witness ==
  /\ rq.nexts = <<"authenticate">>
  /\ rq.sentBy = <<>>
  /\ rq.user.id = rq.decoded.id
  /\ rq.user.isActive
  /\ rq.pc = "handler"

\* C7: when the store holds isActive = false for the identity at the
\* lookup, a correctly signed, unexpired token issued earlier is answered
\* 401 'Account is deactivated.' and next is not reached.
C7_DeactivationImmediate ==
  [][(/\ AuthLookupStep
      /\ rq'.lookup = "record"
      /\ rq.decoded.id \in DOMAIN users
      /\ ~users[rq.decoded.id].isActive)
       => /\ rq'.pc = "done"
          /\ rq'.status = 401
          /\ rq'.error = "Account is deactivated."
          /\ rq'.nexts = rq.nexts
          /\ Count("authenticate", rq'.nexts) = 0
          /\ rq'.user = NoUser
    ]_vars

\* C7 witness: the identity was already inactive when authenticate
\* started, the token was issued to it and has not expired, and the
\* answer is 401 'Account is deactivated.'.
C7_Witness ==
  /\ rq.pc = "done"
  /\ rq.inactiveAtStart
  /\ rq.decoded \in issued
  /\ now < rq.decoded.exp
  /\ rq.status = 401
  /\ rq.error = "Account is deactivated."

\* C8: behind authenticate, authorize decides by the role the store held
\* at the lookup, not by the role of the token's claim: that role in the
\* list passes to the handler, any other is answered 403.
C8_RoleFromStore ==
  [][/\ AuthLookupStep /\ rq'.lookup = "record"
          => rq'.found = users[rq.decoded.id]
     /\ (AuthorizeStep /\ Count("authenticate", rq.nexts) = 1) =>
          IF rq.found.role \in rq.roles
          THEN /\ rq'.pc = "handler"
               /\ rq'.status = 0
               /\ rq'.nexts = Append(rq.nexts, "authorize")
          ELSE /\ rq'.pc = "done"
               /\ rq'.status = 403
               /\ rq'.nexts = rq.nexts
    ]_vars

\* C8 witness: a token issued while the identity was admin is answered
\* 403 on an admin-only route after the stored role became user.
C8_Witness ==
  /\ rq.status = 403
  /\ rq.roles = {"admin"}
  /\ rq.decoded \in issued
  /\ rq.decoded.role = "admin"
  /\ rq.found.role = "user"
  /\ rq.found.id = rq.decoded.id

\* C9: authorize answers 401 when no identity is attached, whatever the
\* role list; else 403 when the identity's role is not in the list; else
\* it calls next once and sends nothing.  It changes neither the request
\* nor any state.
C9_AuthorizeDecision ==
  [][AuthorizeStep =>
       /\ IF rq.user = NoUser
          THEN /\ rq'.status = 401 /\ rq'.pc = "done"
               /\ rq'.nexts = rq.nexts
               /\ rq'.sentBy = Append(rq.sentBy, "authorize")
          ELSE IF rq.user.role \notin rq.roles
          THEN /\ rq'.status = 403 /\ rq'.pc = "done"
               /\ rq'.nexts = rq.nexts
               /\ rq'.sentBy = Append(rq.sentBy, "authorize")
          ELSE /\ rq'.status = rq.status
               /\ rq'.nexts = Append(rq.nexts, "authorize")
               /\ rq'.sentBy = rq.sentBy
               /\ rq'.pc = "handler"
       /\ rq'.user = rq.user
       /\ rq'.header = rq.header
       /\ rq'.roles = rq.roles
       /\ UNCHANGED <<users, issued, requests>>
    ]_vars

\* C9 witness: with no identity attached authorize answers 401 although
\* every role is in its list.
C9_Witness ==
  /\ rq.ran = <<"authorize">>
  /\ rq.roles = Roles
  /\ rq.status = 401
  /\ rq.user = NoUser

IsPrefix(s, t) == Len(s) <= Len(t) /\ SubSeq(t, 1, Len(s)) = s

\* C10: the stages of a route run in the order limiter, authenticate,
\* authorize, handler; each runs only after every stage before it called
\* next; a 429, 401 or 403 ends the request: no later stage runs and no
\* stage runs twice.
C10_StageOrder ==
  /\ IsPrefix(rq.ran, rq.chain)
  /\ rq.chain = SelectSeq(<<"limiter", "authenticate", "authorize", "handler">>,
                          LAMBDA g : Count(g, rq.chain) > 0)
  /\ IsPrefix(rq.nexts, rq.ran)
  /\ Len(rq.nexts) >= Len(rq.ran) - 1
  /\ Count("handler", rq.ran) = 1 => rq.nexts = SubSeq(rq.chain, 1, Len(rq.chain) - 1)
  /\ rq.status \in {429, 401, 403} =>
       /\ rq.pc = "done"
       /\ Count("handler", rq.ran) = 0
       /\ rq.sentBy = <<Last(rq.ran)>>
       /\ rq.nexts = SubSeq(rq.ran, 1, Len(rq.ran) - 1)
  /\ Len(rq.sentBy) <= 1

\* C10 witness: limiter and authenticate called next, authorize answered
\* 403, and the handler did not run.
C10_Witness ==
  /\ rq.ran = <<"limiter", "authenticate", "authorize">>
  /\ rq.nexts = <<"limiter", "authenticate">>
  /\ rq.status = 403
  /\ rq.pc = "done"

\* ------------------------------------------------ extractToken: the claims
\* The authorization header of the request extractToken was called with
\* ('' when the request carries none).
GivenHeader ==
  IF "authorization" \in DOMAIN extracted.req.headers
  THEN extracted.req.headers.authorization
  ELSE <<>>

HasHeaders == "headers" \in DOMAIN extracted.req

\* C11: extractToken returns a credential only for a header that is
\* 'Bearer ' (case-sensitive, one space) followed by a non-empty
\* remainder; for every other header value, the header that is exactly
\* 'Bearer ' included, it returns null.
C11_CredentialOnlyAfterBearer ==
  (extracted.called /\ HasHeaders) =>
     IF StartsWith(GivenHeader, BearerPrefix) /\ Len(GivenHeader) > 7
     THEN extracted.out.kind = "string"
     ELSE extracted.out = Null

\* C12: for every non-empty s the header 'Bearer ' + s yields exactly s,
\* nothing trimmed or changed; a missing header, another scheme, the
\* lowercase scheme and a header without scheme yield null.
C12_ExactRemainder ==
  (extracted.called /\ HasHeaders) =>
     /\ "authorization" \notin DOMAIN extracted.req.headers
          => extracted.out = Null
     /\ \A s \in Remainders \ {<<>>} :
          GivenHeader = BearerPrefix \o Chars(s)
            => extracted.out = Str(Chars(s))
     /\ ~StartsWith(GivenHeader, BearerPrefix) => extracted.out = Null

\* C12 witness: the remainder ' a ' comes back with its blanks.
C12_Witness ==
  /\ extracted.called /\ HasHeaders
  /\ GivenHeader = BearerPrefix \o Chars(<<" ", "a", " ">>)
  /\ extracted.out = Str(Chars(<<" ", "a", " ">>))

\* C13: extractToken never throws: whatever request it is given, with a
\* header, without one, or without a headers mapping, it returns a
\* credential or null.
C13_NeverThrows ==
  extracted.called => extracted.out.kind \in {"string", "null"}

WrongSecret(token) ==
  Len(token) = 1 /\ IsJwt(token[1]) /\ token[1].secret # JWT_SECRET

ExpiryPassed(token, t) ==
  Len(token) = 1 /\ IsJwt(token[1]) /\ token[1].exp < t

Malformed(token) ==
  token # <<>> /\ (Len(token) # 1 \/ ~IsJwt(token[1]))

\* C15: verifyToken throws, and returns no claim, for a token signed with
\* another secret, a token whose exp is in the past, a malformed string
\* and the empty string.
C15_VerifyFails ==
  \A v \in verdicts :
    (\/ WrongSecret(v.token)
     \/ ExpiryPassed(v.token, v.at)
     \/ Malformed(v.token)
     \/ v.token = <<>>)
      => /\ ~v.out.ok
         /\ v.out.error # ""
         /\ "decoded" \notin DOMAIN v.out

\* C15 witness: a token with the wrong signature and an expired token
\* were both refused.
C15_Witness ==
  /\ \E v \in verdicts : WrongSecret(v.token) /\ ~v.out.ok
  /\ \E v \in verdicts :
       /\ ExpiryPassed(v.token, v.at) /\ ~WrongSecret(v.token)
       /\ ~v.out.ok

\* C16: exp = iat + the configured time to live; a token is accepted
\* only strictly before its exp and only when signed with the shared
\* secret; once accepted it is refused at every time >= exp, and for one
\* token the answer changes in no other way.
C16_TimeBounded ==
  /\ \A m \in minted :
       m.token.iat = m.at /\ m.token.exp = m.token.iat + JWT_EXPIRE
  /\ \A v \in verdicts :
       v.out.ok => /\ Len(v.token) = 1 /\ IsJwt(v.token[1])
                   /\ v.at < v.token[1].exp
                   /\ v.token[1].secret = JWT_SECRET
  /\ \A v \in verdicts : \A w \in verdicts :
       (v.token = w.token /\ v.out.ok) =>
          /\ w.at >= v.token[1].exp => ~w.out.ok
          /\ ~w.out.ok => (w.at >= v.token[1].exp /\ w.at > v.at)
          /\ w.out.ok => w.out = v.out

\* C16 witness: one token was accepted and, at the tick that equals its
\* exp, refused.
C16_Witness ==
  \E v \in verdicts : \E w \in verdicts :
    /\ v.token = w.token
    /\ v.out.ok
    /\ w.at = v.token[1].exp
    /\ ~w.out.ok

\* C18: verifyToken reports every failure to its caller as one failure
\* kind: the errors two failing calls return are the same, whatever made
\* the token invalid.
C18_OneFailureKind ==
  \A v \in verdicts : \A w \in verdicts :
    (~v.out.ok /\ ~w.out.ok) => v.out.error = w.out.error

\* ------------------------------------------- authenticate: failure handling
\* The token authenticate extracts from the request in flight, and what
\* verifyToken makes of it now.
GivenToken == ExtractToken(Request(rq.header))

CodecRefuses ==
  /\ GivenToken.kind = "string"
  /\ GivenToken.value # <<>>
  /\ ~VerifyToken(GivenToken.value, now).ok

\* C17: whatever made verifyToken refuse the token (signature, expiry,
\* structure), the response of authenticate is the same: status 401 and
\* body {error: 'Invalid token.'}; the cause goes to the log only.
C17_ResponseHidesCause ==
  [][(AuthBeginStep /\ CodecRefuses) =>
       /\ rq'.status = 401
       /\ rq'.error = "Invalid token."
       /\ rq'.logged = VerifyToken(GivenToken.value, now).error
       /\ rq'.logged \in {"jwt malformed", "invalid signature", "jwt expired"}
    ]_vars

\* C17 witness: a token that was issued by the server and has expired is
\* answered like any other refused token, and the log holds the cause.
C17_Witness ==
  /\ rq.pc = "done"
  /\ \E tok \in issued : rq.header = BearerPrefix \o <<tok>>
  /\ rq.logged = "jwt expired"
  /\ rq.status = 401
  /\ rq.error = "Invalid token."

\* C19: an exception raised while authenticate decodes the token or
\* looks up the identity is caught and answered 401 'Invalid token.'; it
\* does not leave the middleware, no 5xx is sent and next is not called.
C19_ExceptionsCaught ==
  [][((AuthBeginStep /\ CodecRefuses)
        \/ (AuthLookupStep /\ rq'.lookup = "error")) =>
       /\ rq'.pc = "done"
       /\ rq'.status = 401
       /\ rq'.error = "Invalid token."
       /\ rq'.sentBy = Append(rq.sentBy, "authenticate")
       /\ rq'.nexts = rq.nexts
       /\ Count("authenticate", rq'.nexts) = 0
       /\ rq'.user = NoUser
    ]_vars

\* C19 witness: the store failed while looking up the identity of a
\* valid token, and the request was answered 401 'Invalid token.'.
C19_Witness ==
  /\ rq.pc = "done"
  /\ rq.lookup = "error"
  /\ rq.decoded \in issued
  /\ rq.status = 401
  /\ rq.error = "Invalid token."
  /\ rq.nexts = SubSeq(rq.ran, 1, Len(rq.ran) - 1)

\* C20: every invocation of authenticate eventually finishes, by sending
\* a response or calling next, even when the lookup never completes.
InAuthenticate == rq.pc \in {"authenticate", "lookup"}

C20_AuthenticateFinishes == InAuthenticate ~> ~InAuthenticate

\* ------------------------------------------------ authenticate: the order
\* C22: authenticate checks in the order extract, decode, lookup, active
\* check, and the first failing step decides the body: 'Access denied. No
\* token provided.' when no token is extracted, else 'Invalid token.' when
\* decoding fails, else (the query having resolved) 'Invalid token. User
\* not found.' when the store has no record, else 'Account is
\* deactivated.' when the record is inactive.  The store is queried only
\* for a token that was extracted and decoded.
C22_FirstFailureDecides ==
  [][/\ AuthBeginStep =>
          LET token == ExtractToken(Request(rq.header))
          IN IF Falsy(token)
             THEN /\ rq'.pc = "done"
                  /\ rq'.error = "Access denied. No token provided."
                  /\ rq'.lookup = "none"
             ELSE IF ~VerifyToken(token.value, now).ok
             THEN /\ rq'.pc = "done"
                  /\ rq'.error = "Invalid token."
                  /\ rq'.lookup = "none"
             ELSE /\ rq'.pc = "lookup"
                  /\ rq'.status = 0
                  /\ rq'.decoded = VerifyToken(token.value, now).decoded
     /\ (AuthLookupStep /\ rq'.lookup # "error") =>
          IF rq.decoded.id \notin DOMAIN users
          THEN /\ rq'.pc = "done"
               /\ rq'.error = "Invalid token. User not found."
          ELSE IF ~users[rq.decoded.id].isActive
          THEN /\ rq'.pc = "done"
               /\ rq'.error = "Account is deactivated."
          ELSE /\ rq'.status = 0
               /\ rq'.nexts = Append(rq.nexts, "authenticate")
     /\ rq'.lookup # rq.lookup => rq.pc = "lookup" \/ rq'.pc = "idle"
     /\ rq.pc = "lookup" =>
          /\ rq.decoded # NoClaim
          /\ rq.header = BearerPrefix \o <<rq.decoded>>
          /\ SignatureValid(rq.decoded)
    ]_vars

\* C22 witness: a token issued to an identity that has since been removed
\* and that has expired is answered 'Invalid token.' without a query.
C22_Witness ==
  /\ rq.pc = "done"
  /\ \E tok \in issued :
       /\ rq.header = BearerPrefix \o <<tok>>
       /\ tok.id \notin DOMAIN users
       /\ Expired(tok, now)
  /\ rq.error = "Invalid token."
  /\ rq.lookup = "none"
  /\ rq.status = 401

\* ------------------------------------------- authenticate: req.user attached
\* C23: when authenticate calls next, req.user is the record the store
\* returned for the token's subject id at that moment, with the store's
\* role and isActive whatever the claim carries; behind authenticate the
\* handler never runs with req.user unset or with an identity that was
\* inactive at the lookup.
C23_AttachedIsStoreRecord ==
  [][/\ (rq'.nexts = Append(rq.nexts, "authenticate")) =>
          /\ AuthLookupStep
          /\ rq.decoded.id \in DOMAIN users
          /\ rq'.user = users[rq.decoded.id]
          /\ rq'.user.role = users[rq.decoded.id].role
          /\ rq'.user.isActive
          /\ rq'.found = rq'.user
     /\ (rq'.pc = "handler" /\ Count("authenticate", rq'.chain) = 1) =>
          /\ rq'.user # NoUser
          /\ rq'.user = rq'.found
          /\ rq'.found.isActive
          /\ rq'.lookup = "record"
    ]_vars

\* C23 witness: the handler is reached with the store's role "user"
\* attached while the token's claim still says "admin".
C23_Witness ==
  /\ rq.pc = "handler"
  /\ rq.nexts = <<"authenticate">>
  /\ rq.decoded \in issued
  /\ rq.decoded.role = "admin"
  /\ rq.user.role = "user"
  /\ rq.user.id = rq.decoded.id
  /\ rq.user.isActive


\* ------------------------------------------- the limiter under concurrency
\* C21: the handler runs as one step, so for any number of requests in
\* flight for one key and any interleaving of them at most max are
\* admitted per window and no admitted timestamp is lost or counted
\* twice.
C21_LimitUnderInterleaving ==
  /\ Cardinality({r \in DOMAIN flight : Mid(r)}) <= 1
  /\ \A k \in Keys : \A t \in 0..MaxTime : AdmittedIn(k, t) <= max
  /\ \A k \in DOMAIN requests :
       /\ IsSuffix(requests[k], admitted[k])
       /\ \A i \in 1..(Len(admitted[k]) - Len(requests[k])) :
            admitted[k][i] <= now - windowMs

\* C21 witness: three requests of one client were in flight together at
\* one instant; with max = 2 two were admitted and one was denied.
C21_Witness ==
  /\ max = 2
  /\ \A r \in DOMAIN flight :
       /\ flight[r].pc = "done"
       /\ flight[r].ip = flight[1].ip
       /\ flight[r].at = flight[1].at
  /\ Cardinality({r \in DOMAIN flight : flight[r].status = 429}) = 1
  /\ Len(requests[flight[1].ip]) = 2

\* C24: a key has an entry only if a request of that key was handled;
\* right after a request of key k at time now every timestamp stored for
\* k is > now - windowMs; each stored sequence is in non-decreasing
\* order and never longer than max.
C24_TableInvariant ==
  /\ \A k \in DOMAIN requests :
       /\ k \in Keys
       /\ admitted[k] # <<>> \/ denied[k] > 0
       /\ \A i \in DOMAIN requests[k] : \A j \in DOMAIN requests[k] :
            i < j => requests[k][i] <= requests[k][j]
       /\ Len(requests[k]) <= max
  /\ (lres.ip # 0 /\ lres.at = now) =>
       \A i \in DOMAIN requests[lres.ip] :
         requests[lres.ip][i] > now - windowMs

\* C24 witness: a key holds two timestamps of different times, the
\* older one about to leave the window, and the other key has no entry.
C24_Witness ==
  /\ windowMs = 2 /\ max = 2
  /\ lres.ip = 1 /\ lres.at = now
  /\ requests[1] = <<now - 1, now>>
  /\ denied[1] > 0
  /\ 2 \notin DOMAIN requests

\* A statement of the handler of request r has run.
Stepped(r) == flight'[r] # flight[r]

AllExpired(k) ==
  \A i \in DOMAIN requests[k] : requests[k][i] <= now - windowMs

\* C25: the set of keys with an entry only grows; the timestamps of a
\* key change only when a request of that key is handled, stale ones
\* included; when all of a key's timestamps have expired, pruning leaves
\* the key its entry, with an empty sequence.
C25_NoEviction ==
  [][/\ DOMAIN requests \subseteq DOMAIN requests'
     /\ \A k \in DOMAIN requests :
          requests'[k] # requests[k] =>
            \E r \in DOMAIN flight : Stepped(r) /\ flight[r].ip = k
     /\ \A r \in DOMAIN flight :
          (Stepped(r) /\ flight'[r].pc = "pruned"
             /\ flight[r].ip \in DOMAIN requests
             /\ AllExpired(flight[r].ip))
            => /\ flight[r].ip \in DOMAIN requests'
               /\ requests'[flight[r].ip] = <<>>
    ]_vars

\* C25 witness: key 1 still holds a timestamp that left the window, as
\* no request of key 1 came since, while key 2, whose timestamps had all
\* expired, was pruned to an empty sequence and kept its entry.
C25_Witness ==
  /\ DOMAIN requests = Keys
  /\ requests[1] # <<>> /\ AllExpired(1)
  /\ requests[2] = <<>>
  /\ admitted[2] # <<>>
  /\ \E r \in DOMAIN flight : flight[r].ip = 2 /\ flight[r].pc = "pruned"

\* ------------------------------------------------- limiter instances: claims
\* Admissions of key k by instance i with a timestamp in (t - w, t].
InstAdmittedIn(i, k, t) ==
  Cardinality({n \in DOMAIN instances[i].admitted[k] :
                 /\ instances[i].admitted[k][n] > t - instances[i].windowMs
                 /\ instances[i].admitted[k][n] <= t})

\* C26: every createRateLimiter call yields a limiter with an empty table
\* of its own: a request handled by one instance changes neither the
\* table nor the decisions of another, even for the same key and the
\* same configuration.
C26_InstancesIndependent ==
  [][/\ Len(instances') > Len(instances) =>
          /\ tables'[instances'[Len(instances')].table] = <<>>
          /\ \A j \in DOMAIN instances :
               /\ instances'[j] = instances[j]
               /\ tables'[instances'[j].table] = tables[instances[j].table]
     /\ (Len(instances') = Len(instances) /\ ilast' # ilast) =>
          /\ \A j \in DOMAIN instances \ {ilast'.inst} :
               /\ instances'[j] = instances[j]
               /\ tables'[instances'[j].table] = tables[instances[j].table]
          /\ ilast'.nextCalls = 1 <=>
               InstAdmittedIn(ilast'.inst, ilast'.ip, now)
                 < instances[ilast'.inst].max
    ]_vars

\* C26 witness: two limiters of the same configuration; the first has
\* denied key 1, the second admits key 1 in the same window.
C26_Witness ==
  /\ Len(instances) = 2
  /\ instances[1].windowMs = instances[2].windowMs
  /\ instances[1].max = instances[2].max
  /\ ilast.inst = 2 /\ ilast.ip = 1 /\ ilast.nextCalls = 1
  /\ InstAdmittedIn(1, 1, now) = instances[1].max
  /\ InstAdmittedIn(2, 1, now) = 1

\* ------------------------------------------------------ toggleLike: claims
Members(s) == {s[i] : i \in DOMAIN s}

Odd(n) == n % 2 = 1

\* C30: from a likes list without duplicates, after any sequence of
\* toggleLike calls no user id is in likes more than once; a user is in
\* likes exactly when the user has toggled an odd number of times since
\* not being in it (for a user in the first list: an even number); two
\* consecutive toggles by one user restore the membership; and a toggle
\* by one user neither adds nor removes another user's like.
C30_ToggleInvolution ==
  [][LET likes == posts'[1].likes
         userId == tlog'.user
     IN /\ \A u \in LikerIds : Count(u, likes) <= 1
        /\ \A u \in LikerIds :
             u \in Members(likes)
               <=> (Odd(tlog'.by[u]) <=> u \notin Members(tlog'.first))
        /\ userId \in Members(likes) <=> userId \notin Members(posts[1].likes)
        /\ (tlog.n >= 1 /\ tlog.user = userId)
             => Members(likes) = Members(tlog.before)
        /\ \A u \in LikerIds \ {userId} :
             u \in Members(likes) <=> u \in Members(posts[1].likes)
    ]_vars

\* C30 witness: user 1, first of the two users who liked the post, has
\* toggled twice in a row and is in likes again, now after user 2.
C30_Witness ==
  /\ tlog.first = <<1, 2>>
  /\ tlog.by[1] = 2
  /\ tlog.n = 2
  /\ posts[1].likes = <<2, 1>>

\* ---------------------------------------------------- view counting: claims
Completed == {r \in DOMAIN gets : gets[r].pc = "done" /\ gets[r].status = 200}

InProgress == {r \in DOMAIN gets : gets[r].pc \in {"saving", "saved"}}

\* C29: when every GET /api/posts/:id request that was started has
\* completed, the stored views of a post are the initial 0 plus the
\* number of those requests for it, however their steps interleaved.
C29_NoViewLost ==
  InProgress = {} =>
    \A id \in DOMAIN posts :
      posts[id].views = Cardinality({r \in Completed : gets[r].post.id = id})

\* -------------------------------------------- PUT /api/users/:id: claims
\* A step of the route's handler, and the step at which it answers.
PutUserStep ==
  /\ rq.route = "putUser"
  /\ rq.pc \in {"putUser"} \cup HandlerAwaits
  /\ rq' # rq

PutUserAnswers == PutUserStep /\ rq'.pc = "done"

\* The role and isActive of every stored identity stay as they are.
PrivilegesUnchanged ==
  /\ DOMAIN users' = DOMAIN users
  /\ \A u \in DOMAIN users :
       /\ users'[u].role = users[u].role
       /\ users'[u].isActive = users[u].isActive

\* The requester is not the target and is not an admin, and the target is
\* stored.
ForeignNonAdmin ==
  /\ rq.user.role # "admin"
  /\ rq.user.id # rq.param
  /\ rq.param \in DOMAIN users

PostHandlerStep ==
  /\ rq.route \in {"putPost", "deletePost"}
  /\ rq.pc \in {"putPost", "deletePost"} \cup HandlerAwaits
  /\ rq' # rq

\* The requester is neither the author of the stored post nor an admin.
Outsider ==
  /\ rq.param \in DOMAIN posts
  /\ posts[rq.param].author # rq.user.id
  /\ rq.user.role # "admin"

====
